---- MODULE Spec2Model ----
(***************************************************************************)
(* A model of src/package/src/background/main.js: the context menu session *)
(* manager (onMenuShown / onMenuHidden), the window recency tracker        *)
(* (onFocusChanged / onRemoved) and the tab relocation engine (moveTabs /  *)
(* reopenTabs).  Every asynchronous host call is a suspension point: the   *)
(* handler's continuation is a separate action, so that other events can   *)
(* be handled in between, as on the browser's event loop.                  *)
(***************************************************************************)
EXTENDS Integers, Sequences, FiniteSets, TLC

\* ---------------------------------------------------------------- bounds
NumWindows == 3
MaxSessions == 2
MaxFocusEvents == 2
MaxRemoved == 1
NumTabs == 3

Windows == 1..NumWindows
Tokens == 1..MaxSessions
FocusEvents == 1..MaxFocusEvents

\* browser.windows.WINDOW_ID_NONE
WINDOW_ID_NONE == -1
\* The value of reading past the end of an array (undefined).
Undefined == 0

TabIds == 1..NumTabs
DefaultContainer == "firefox-default"
Containers == {DefaultContainer, "container-A", "container-B"}

\* The parent entries the menu setup creates: "reopen-menu" is commented out.
MenuParents == {"move-menu"}
\* The parent entries onMenuShown and onMenuHidden refer to.
ParentIds == {"move-menu", "reopen-menu"}

VARIABLES
    \* host: windows
    winType,              \* window id -> "normal" | "popup"
    winIncognito,         \* window id -> BOOLEAN
    winLive,              \* the windows that exist
    \* the window recency tracker
    lastFocusedWindow,    \* the Set, as the sequence of its insertion order
    lookup,               \* focus event number -> its windows.get call
    removedQueue,         \* removed windows whose onRemoved event is not yet handled
    badgeRequests,        \* the badge refreshes requested by the latest handler
    \* history of the focus events
    focusCount,           \* number of focus-changed events handled
    lastFocusEvent,       \* window id of the most recent focus-changed event
    focusedIds,           \* window ids of all focus-changed events
    removedCount,
    \* one invocation of onClicked or of the move-tabs command
    clicked,              \* its tab's window and the target it passes to moveTabs
    \* host: tabs
    tabs,                 \* tab id -> the tab
    hostQueue,            \* the tab and window calls issued and not yet handled
    hostLog,              \* the calls the host has handled, in order
    nextWindowId,         \* the id of the next window windows.create makes
    \* settings.js values read by moveTabs
    settings,
    \* one invocation of moveTabs or reopenTabs
    op,                   \* its arguments
    pc,                   \* where the function is
    queried,              \* the selection as resolved, before any filtering
    selectedTabs,         \* its local: the selected tabs (snapshots)
    activeTab,            \* its local: the id of the active tab, or Undefined
    moving,               \* moveTabs: one moveToWindow call per bucket
    newTabs,              \* reopenTabs: one tabs.create call per selected tab
    \* main.js globals of the menu session manager
    windowMenuIds,        \* sequence of menu item ids
    lastMenuInstanceId,
    nextMenuInstanceId,
    \* one record per invocation of onMenuShown, by its menuInstanceId
    session,
    \* host: menu
    menuItems,            \* the dynamic entries that exist in the menu
    parentEnabled,        \* enabled flag of each existing parent entry
    menuTab,              \* the tab the context menu is opened on
    refreshed,            \* the sessions that called menus.refresh
    \* history of the menu events
    hiddenDuring,         \* sessions in flight when a hidden event was handled
    supersededBy          \* token -> the token issued while it was in flight, or 0

menuVars == <<windowMenuIds, lastMenuInstanceId, nextMenuInstanceId, session,
              menuItems, parentEnabled, menuTab, refreshed,
              hiddenDuring, supersededBy>>
hostVars == <<winType, winIncognito>>
clickVars == <<clicked>>
focusVars == <<winLive, lastFocusedWindow, lookup, removedQueue, badgeRequests,
               focusCount, lastFocusEvent, focusedIds, removedCount>>
tabVars == <<tabs, settings, op, pc, queried, selectedTabs, activeTab, moving, newTabs,
             hostQueue, hostLog, nextWindowId>>
vars == <<hostVars, clickVars, menuVars, focusVars, tabVars>>

\* ------------------------------------------------------------ helpers
RECURSIVE SeqOfSet(_)
\* A set of integers as the ascending sequence (the host's enumeration order).
SeqOfSet(S) ==
    IF S = {} THEN <<>>
    ELSE LET m == CHOOSE x \in S : \A y \in S : x <= y
         IN <<m>> \o SeqOfSet(S \ {m})

Range(q) == {q[i] : i \in 1..Len(q)}

\* browser.windows.getAll({windowTypes: ["normal"]})
NormalWindows == {w \in winLive : winType[w] = "normal"}

\* No click and no command is being handled.
NoClick == [via |-> "none", st |-> "none", windowId |-> 0, targetWindowId |-> 0]

\* The parts of the state a specification does not exercise.
FocusIdle ==
    /\ winLive = Windows
    /\ lastFocusedWindow = SeqOfSet(Windows)
    /\ lookup = [n \in FocusEvents |-> [id |-> 0, st |-> "none"]]
    /\ removedQueue = {}
    /\ badgeRequests = <<>>
    /\ focusCount = 0
    /\ lastFocusEvent = WINDOW_ID_NONE
    /\ focusedIds = {}
    /\ removedCount = 0

TabsIdle ==
    /\ tabs = <<>>
    /\ hostQueue = <<>>
    /\ hostLog = <<>>
    /\ nextWindowId = NumWindows + 1
    /\ settings = [switchToTabAfterMoving |-> FALSE, moveableContainers |-> {}]
    /\ op = [name |-> "none", tab |-> 0, targetWindowId |-> 0,
             switchToActiveTab |-> FALSE]
    /\ pc = "idle"
    /\ queried = <<>>
    /\ selectedTabs = <<>>
    /\ activeTab = Undefined
    /\ moving = <<>>
    /\ newTabs = <<>>

\* ------------------------------------------------- menu session manager
NoSession ==
    [pc |-> "idle", tab |-> [windowId |-> 0, incognito |-> FALSE],
     creating |-> <<>>,
     updating |-> [p \in ParentIds |-> [enabled |-> FALSE, st |-> "none"]]]

InFlight(s) == session[s].pc \in {"getAll", "building"}

\* onMenuShown up to its first await: issue a token and ask for the windows.
MenuShown(tab) ==
    /\ nextMenuInstanceId <= MaxSessions
    /\ LET menuInstanceId == nextMenuInstanceId
       IN /\ nextMenuInstanceId' = nextMenuInstanceId + 1
          /\ lastMenuInstanceId' = menuInstanceId
          /\ session' = [session EXCEPT ![menuInstanceId] =
                [NoSession EXCEPT !.pc = "getAll",
                                  !.tab = tab]]
          /\ supersededBy' = [t \in Tokens |->
                IF InFlight(t) /\ supersededBy[t] = 0 THEN menuInstanceId
                ELSE supersededBy[t]]
    /\ UNCHANGED <<windowMenuIds, menuItems, parentEnabled, menuTab, refreshed, hiddenDuring, hostVars, clickVars, focusVars, tabVars>>

\* The windows a session creates entries for, in enumeration order.
TargetWindows(tab) ==
    SelectSeq(SeqOfSet(NormalWindows), LAMBDA w : w # tab.windowId)

\* The id menus.create returns for the i-th entry of session s: ids are
\* never reused.
MenuItemId(s, i) == (s - 1) * NumWindows + i

\* The create request of one target window.
CreateProperties(tab, w, id) ==
    IF tab.incognito = winIncognito[w]
    THEN [id |-> id, parentId |-> "move-menu",
          onclick |-> [op |-> "moveTabs", targetWindowId |-> w], st |-> "pending"]
    ELSE [id |-> id, parentId |-> "reopen-menu",
          onclick |-> [op |-> "reopenTabs", targetWindowId |-> w], st |-> "pending"]

CountParent(creating, p) ==
    Cardinality({i \in 1..Len(creating) : creating[i].parentId = p})

\* onMenuShown from the resolution of windows.getAll to the await of
\* Promise.all: every create and both updates are issued in one go.
MenuBuild(s) ==
    /\ session[s].pc = "getAll"
    /\ LET tab == session[s].tab
           tw == TargetWindows(tab)
           creating == [i \in 1..Len(tw) |->
                            CreateProperties(tab, tw[i], MenuItemId(s, i))]
       IN /\ session' = [session EXCEPT
                ![s].pc = "building",
                ![s].creating = creating,
                ![s].updating = [p \in ParentIds |->
                    [enabled |-> CountParent(creating, p) > 0, st |-> "pending"]]]
    /\ UNCHANGED <<windowMenuIds, lastMenuInstanceId, nextMenuInstanceId,
                   menuItems, parentEnabled, menuTab, refreshed, hiddenDuring, supersededBy, hostVars, clickVars, focusVars, tabVars>>

\* The host handles one menus.create (the calls of a session in the order
\* they were issued): the entry exists afterwards, or runtime.lastError is
\* set and createMenuItem rejects.  An entry is created exactly when its
\* parent entry exists.
HostCreate(s, i) ==
    /\ i \in 1..Len(session[s].creating)
    /\ session[s].creating[i].st = "pending"
    /\ \A j \in 1..(i - 1) : session[s].creating[j].st # "pending"
    /\ LET ok == session[s].creating[i].parentId \in MenuParents IN
       /\ session' = [session EXCEPT ![s].creating[i].st = IF ok THEN "ok" ELSE "fail"]
       /\ menuItems' = IF ok
                    THEN menuItems \cup {[id |-> session[s].creating[i].id,
                                          parentId |-> session[s].creating[i].parentId,
                                          onclick |-> session[s].creating[i].onclick]}
                    ELSE menuItems
    /\ UNCHANGED <<windowMenuIds, lastMenuInstanceId, nextMenuInstanceId,
                   parentEnabled, menuTab, refreshed, hiddenDuring, supersededBy, hostVars, clickVars, focusVars, tabVars>>

\* The host handles one menus.update of a parent entry; the update of an
\* entry that does not exist changes nothing and may reject.
HostUpdate(s, p, ok) ==
    /\ session[s].updating[p].st = "pending"
    /\ \A i \in 1..Len(session[s].creating) : session[s].creating[i].st # "pending"
    /\ p = "reopen-menu" => session[s].updating["move-menu"].st # "pending"
    /\ p \in MenuParents => ok
    /\ session' = [session EXCEPT ![s].updating[p].st = IF ok THEN "ok" ELSE "fail"]
    /\ parentEnabled' = IF p \in MenuParents
                        THEN [parentEnabled EXCEPT ![p] = session[s].updating[p].enabled]
                        ELSE parentEnabled
    /\ UNCHANGED <<windowMenuIds, lastMenuInstanceId, nextMenuInstanceId,
                   menuItems, menuTab, refreshed, hiddenDuring, supersededBy, hostVars, clickVars, focusVars, tabVars>>

AllSettledOk(s) ==
    /\ \A i \in 1..Len(session[s].creating) : session[s].creating[i].st = "ok"
    /\ \A p \in ParentIds : session[s].updating[p].st = "ok"

AnyRejected(s) ==
    \/ \E i \in 1..Len(session[s].creating) : session[s].creating[i].st = "fail"
    \/ \E p \in ParentIds : session[s].updating[p].st = "fail"

NewWindowMenuIds(s) ==
    [i \in 1..Len(session[s].creating) |-> session[s].creating[i].id]

\* browser.menus.remove of each id of a list
RemoveAll(items, ids) == {m \in items : m.id \notin Range(ids)}

\* The continuation without the staleness check: every build commits.
MenuSettleUnchecked(s) ==
    /\ session[s].pc = "building"
    /\ AllSettledOk(s)
    /\ windowMenuIds' = NewWindowMenuIds(s)
    /\ refreshed' = refreshed \cup {s}
    /\ session' = [session EXCEPT ![s].pc = "committed"]
    /\ UNCHANGED <<menuItems, lastMenuInstanceId, nextMenuInstanceId, parentEnabled,
                   menuTab, hiddenDuring, supersededBy,
                   hostVars, clickVars, focusVars, tabVars>>

\* onMenuShown after Promise.all fulfilled: the staleness check, then either
\* the removal of this session's entries or the commit and the refresh.
MenuSettle(s) ==
    /\ session[s].pc = "building"
    /\ AllSettledOk(s)
    /\ IF s # lastMenuInstanceId
       THEN /\ menuItems' = RemoveAll(menuItems, NewWindowMenuIds(s))
            /\ session' = [session EXCEPT ![s].pc = "discarded"]
            /\ UNCHANGED <<windowMenuIds, refreshed>>
       ELSE /\ windowMenuIds' = NewWindowMenuIds(s)
            /\ refreshed' = refreshed \cup {s}
            /\ session' = [session EXCEPT ![s].pc = "committed"]
            /\ UNCHANGED menuItems
    /\ UNCHANGED <<lastMenuInstanceId, nextMenuInstanceId, parentEnabled,
                   menuTab, hiddenDuring, supersededBy,
                   hostVars, clickVars, focusVars, tabVars>>

\* onMenuShown when Promise.all rejects: the await throws and the function
\* ends there; nothing catches the rejection.
MenuReject(s) ==
    /\ session[s].pc = "building"
    /\ AnyRejected(s)
    /\ session' = [session EXCEPT ![s].pc = "failed"]
    /\ UNCHANGED <<windowMenuIds, lastMenuInstanceId, nextMenuInstanceId,
                   menuItems, parentEnabled, menuTab, refreshed,
                   hiddenDuring, supersededBy, hostVars, clickVars, focusVars, tabVars>>

\* onMenuHidden
MenuHidden ==
    /\ lastMenuInstanceId # 0
    /\ lastMenuInstanceId' = 0
    /\ parentEnabled' = [p \in MenuParents |-> FALSE]
    /\ menuItems' = RemoveAll(menuItems, windowMenuIds)
    /\ hiddenDuring' = hiddenDuring \cup {t \in Tokens : InFlight(t)}
    /\ UNCHANGED <<windowMenuIds, nextMenuInstanceId, session, menuTab, refreshed, supersededBy, hostVars, clickVars, focusVars, tabVars>>

\* ------------------------------------------- menu sessions: the claims
\* The ids of the entries the host created for session s.
Created(s) ==
    {session[s].creating[i].id :
        i \in {j \in 1..Len(session[s].creating) : session[s].creating[j].st = "ok"}}

ExistingIds == {m.id : m \in menuItems}

\* onMenuShown has returned or thrown for session s and the host has handled
\* every call the session issued.
Settled(s) ==
    /\ session[s].pc \in {"committed", "discarded", "failed"}
    /\ \A i \in 1..Len(session[s].creating) : session[s].creating[i].st # "pending"
    /\ \A p \in ParentIds : session[s].updating[p].st # "pending"

Started(s) == session[s].pc # "idle"

\* C1: of two overlapping sessions S1 (older) and S2 (newer, shown while S1
\* was in flight), once both have settled and S2 is still the current
\* session, the existing entries of the two are exactly those S2 created,
\* they are the ones registered in windowMenuIds, and none of S1 is left.
C1_OverlapLeavesOnlyNewer ==
    \A s1 \in Tokens, s2 \in Tokens :
        (/\ supersededBy[s1] = s2
         /\ Settled(s1) /\ Settled(s2)
         /\ lastMenuInstanceId = s2)
        => /\ ExistingIds \cap Created(s1) = {}
           /\ Created(s2) \subseteq ExistingIds
           /\ Range(windowMenuIds) = Created(s2)

\* C1 where no call of either session was rejected (what the token check
\* alone achieves).
C1_OverlapNoRejection ==
    \A s1 \in Tokens, s2 \in Tokens :
        (/\ supersededBy[s1] = s2
         /\ Settled(s1) /\ Settled(s2)
         /\ session[s1].pc # "failed" /\ session[s2].pc # "failed"
         /\ lastMenuInstanceId = s2)
        => /\ ExistingIds \cap Created(s1) = {}
           /\ Created(s2) \subseteq ExistingIds
           /\ Range(windowMenuIds) = Created(s2)

\* C7: once a hidden event was the last menu event handled and every build
\* has settled, no dynamic entry of any session is left in the menu.
C7_NoEntryAfterHidden ==
    (/\ lastMenuInstanceId = 0
     /\ nextMenuInstanceId > 1
     /\ \A s \in Tokens : Started(s) => Settled(s))
    => menuItems = {}

\* C7 for runs in which no call was rejected: the entries of a session
\* that committed before the next shown event are still leaked.
C7_NoEntryAfterHiddenNoRejection ==
    (/\ lastMenuInstanceId = 0
     /\ nextMenuInstanceId > 1
     /\ \A s \in Tokens : Started(s) => (Settled(s) /\ session[s].pc # "failed"))
    => menuItems = {}

\* C8: a session that was in flight when a hidden event was handled never
\* commits: it is not marked committed, has not refreshed the menu, and once
\* it has settled none of the entries it created is left.
C8_HiddenSessionDiscarded ==
    \A s \in hiddenDuring :
        /\ session[s].pc # "committed"
        /\ s \notin refreshed
        /\ Settled(s) => ExistingIds \cap Created(s) = {}

\* The part of C8 that the token check achieves: no commit, no refresh.
C8_HiddenSessionNeverCommits ==
    \A s \in hiddenDuring : session[s].pc # "committed" /\ s \notin refreshed

\* C9: at the step that settles a session, every entry it created is either
\* registered in windowMenuIds or removed from the menu.
C9_CommittedOrDiscarded ==
    [][\A s \in Tokens :
          (~Settled(s) /\ Settled(s)')
          => \A id \in Created(s)' :
                \/ id \in Range(windowMenuIds')
                \/ id \notin ExistingIds']_vars

\* The requests of a session are one per live normal window other than the
\* tab's, under the parent and with the handler its incognito flag selects.
RequestsAreExact(s) ==
    LET tab == session[s].tab
        cr == session[s].creating
        targets == NormalWindows \ {tab.windowId}
    IN /\ Len(cr) = Cardinality(targets)
       /\ \A w \in targets :
            \E i \in 1..Len(cr) :
                /\ cr[i].onclick.targetWindowId = w
                /\ IF winIncognito[w] = tab.incognito
                   THEN cr[i].parentId = "move-menu" /\ cr[i].onclick.op = "moveTabs"
                   ELSE cr[i].parentId = "reopen-menu" /\ cr[i].onclick.op = "reopenTabs"
       /\ \A i \in 1..Len(cr) : cr[i].onclick.targetWindowId # tab.windowId
       /\ \A p \in ParentIds :
            session[s].updating[p].enabled = (CountParent(cr, p) > 0)

C10_RequestsExact ==
    \A s \in Tokens : session[s].pc \notin {"idle", "getAll"} => RequestsAreExact(s)

\* C10: the entries requested are one per other live normal window, move or
\* reopen by the incognito flag, each parent is asked to be enabled exactly
\* when it has a target, and every requested entry is successfully created.
C10_EntriesPerWindow ==
    \A s \in Tokens :
        session[s].pc \notin {"idle", "getAll"}
        => /\ RequestsAreExact(s)
           /\ \A i \in 1..Len(session[s].creating) :
                session[s].creating[i].st # "fail"

\* C17: a menu-shown event issues a token that is not 0 and greater than
\* every token issued before; the current token is 0 or the token issued
\* last; a build commits only when its token is the current one.
C17_TokenDiscipline ==
    [][/\ nextMenuInstanceId' # nextMenuInstanceId
          => /\ lastMenuInstanceId' = nextMenuInstanceId
             /\ lastMenuInstanceId' # 0
             /\ session[lastMenuInstanceId'].pc = "idle"
             /\ session'[lastMenuInstanceId'].pc # "idle"
             /\ \A s \in Tokens : Started(s) => s < lastMenuInstanceId'
       /\ \/ lastMenuInstanceId' = 0
          \/ /\ session'[lastMenuInstanceId'].pc # "idle"
             /\ \A s \in Tokens :
                  session'[s].pc # "idle" => s <= lastMenuInstanceId'
       /\ \A s \in Tokens :
            (session[s].pc # "committed" /\ session'[s].pc = "committed")
            => s = lastMenuInstanceId]_vars

\* Two builds overlapped: the stale one was discarded, the current one
\* committed.
C17_Witness ==
    /\ MaxSessions >= 2
    /\ session[1].pc = "discarded"
    /\ session[2].pc = "committed"
    /\ lastMenuInstanceId = 2

MenuInit ==
    /\ clicked = NoClick
    /\ winType \in [Windows -> {"normal", "popup"}]
    /\ \A w \in Windows : w < NumWindows => winType[w] = "normal"
    /\ winIncognito \in [Windows -> BOOLEAN]
    /\ menuTab = [windowId |-> 1, incognito |-> winIncognito[1]]
    /\ windowMenuIds = <<>>
    /\ lastMenuInstanceId = 0
    /\ nextMenuInstanceId = 1
    /\ session = [t \in Tokens |-> NoSession]
    /\ menuItems = {}
    /\ parentEnabled = [p \in MenuParents |-> FALSE]
    /\ refreshed = {}
    /\ hiddenDuring = {}
    /\ supersededBy = [t \in Tokens |-> 0]
    /\ FocusIdle
    /\ TabsIdle

MenuNext ==
    \/ MenuShown(menuTab)
    \/ \E s \in Tokens : MenuBuild(s)
    \/ \E s \in Tokens, i \in 1..NumWindows : HostCreate(s, i)
    \/ \E s \in Tokens, p \in ParentIds, ok \in BOOLEAN : HostUpdate(s, p, ok)
    \/ \E s \in Tokens : MenuSettle(s)
    \/ \E s \in Tokens : MenuReject(s)
    \/ MenuHidden

SpecMenu == MenuInit /\ [][MenuNext]_vars
\* ------------------------------------------------ window recency tracker
\* A delete that drops the most recent element, whatever the id.
DropLast(q, id) == SubSeq(q, 1, Len(q) - 1)

\* Set.prototype.delete on the insertion-ordered Set
SetDelete(q, id) == SelectSeq(q, LAMBDA x : x # id)

\* Set.prototype.add: a value already in the Set keeps its place
SetAdd(q, id) == IF id \in Range(q) THEN q ELSE Append(q, id)

\* [...set][i] with a 0-based index i: undefined past the end
SetAt(q, i) == IF i >= 0 /\ i < Len(q) THEN q[i + 1] ELSE Undefined

\* updateIconBadge(id): the refresh is requested unless id < 0
UpdateIconBadge(id) == IF id < 0 THEN <<>> ELSE <<id>>

\* onFocusChanged up to the call of windows.get
FocusChanged(id) ==
    /\ focusCount < MaxFocusEvents
    /\ id \in winLive \cup {WINDOW_ID_NONE}
    /\ focusCount' = focusCount + 1
    /\ lastFocusEvent' = id
    /\ focusedIds' = focusedIds \cup {id}
    /\ lookup' = IF id = WINDOW_ID_NONE
                 THEN [lookup EXCEPT ![focusCount + 1] = [id |-> 0, st |-> "done"]]
                 ELSE [lookup EXCEPT ![focusCount + 1] = [id |-> id, st |-> "sent"]]
    /\ badgeRequests' = <<>>
    /\ UNCHANGED <<winLive, lastFocusedWindow, removedQueue, removedCount,
                   hostVars, clickVars, menuVars, tabVars>>

\* The host answers windows.get(id): with the window, or with an error when
\* the window no longer exists.
HostGet(n) ==
    /\ lookup[n].st = "sent"
    /\ lookup' = [lookup EXCEPT ![n].st =
                    IF lookup[n].id \in winLive THEN winType[lookup[n].id]
                    ELSE "error"]
    /\ UNCHANGED <<winLive, lastFocusedWindow, removedQueue, badgeRequests,
                   focusCount, lastFocusEvent, focusedIds, removedCount,
                   hostVars, clickVars, menuVars, tabVars>>

\* The callback with the refresh after the mutation: keyed on id itself.
FocusLookupResolvedBadgeLate(n) ==
    /\ lookup[n].st \in {"normal", "popup"}
    /\ lookup' = [lookup EXCEPT ![n] = [id |-> 0, st |-> "done"]]
    /\ LET id == lookup[n].id
           last == SetAt(lastFocusedWindow, Len(lastFocusedWindow) - 1)
           moved == SetAdd(SetDelete(lastFocusedWindow, id), id)
       IN IF lookup[n].st = "normal" /\ id > 0 /\ last # id
          THEN /\ badgeRequests' = UpdateIconBadge(SetAt(moved, Len(moved) - 1))
               /\ lastFocusedWindow' = moved
          ELSE /\ badgeRequests' = <<>>
               /\ UNCHANGED lastFocusedWindow
    /\ UNCHANGED <<winLive, removedQueue, focusCount, lastFocusEvent, focusedIds,
                   removedCount,
                   hostVars, clickVars, menuVars, tabVars>>

\* The callback without the check of the window's type.
FocusLookupResolvedAnyType(n) ==
    /\ lookup[n].st \in {"normal", "popup"}
    /\ lookup' = [lookup EXCEPT ![n] = [id |-> 0, st |-> "done"]]
    /\ LET id == lookup[n].id
           last == SetAt(lastFocusedWindow, Len(lastFocusedWindow) - 1)
       IN IF id > 0 /\ last # id
          THEN /\ badgeRequests' = UpdateIconBadge(last)
               /\ lastFocusedWindow' = SetAdd(SetDelete(lastFocusedWindow, id), id)
          ELSE /\ badgeRequests' = <<>>
               /\ UNCHANGED lastFocusedWindow
    /\ UNCHANGED <<winLive, removedQueue, focusCount, lastFocusEvent, focusedIds,
                   removedCount,
                   hostVars, clickVars, menuVars, tabVars>>

\* The .then callback of onFocusChanged
FocusLookupResolved(n) ==
    /\ lookup[n].st \in {"normal", "popup"}
    /\ lookup' = [lookup EXCEPT ![n] = [id |-> 0, st |-> "done"]]
    /\ LET id == lookup[n].id
           last == SetAt(lastFocusedWindow, Len(lastFocusedWindow) - 1)
       IN IF lookup[n].st = "normal" /\ id > 0 /\ last # id
          THEN /\ badgeRequests' = UpdateIconBadge(last)
               /\ lastFocusedWindow' = SetAdd(SetDelete(lastFocusedWindow, id), id)
          ELSE /\ badgeRequests' = <<>>
               /\ UNCHANGED lastFocusedWindow
    /\ UNCHANGED <<winLive, removedQueue, focusCount, lastFocusEvent, focusedIds,
                   removedCount,
                   hostVars, clickVars, menuVars, tabVars>>

\* The .catch(console.error) of onFocusChanged
FocusLookupRejected(n) ==
    /\ lookup[n].st = "error"
    /\ lookup' = [lookup EXCEPT ![n] = [id |-> 0, st |-> "done"]]
    /\ badgeRequests' = <<>>
    /\ UNCHANGED <<winLive, lastFocusedWindow, removedQueue, focusCount, lastFocusEvent, focusedIds, removedCount,
                   hostVars, clickVars, menuVars, tabVars>>

\* The host closes a window; the removed event is delivered later.
HostRemoveWindow(id) ==
    /\ removedCount < MaxRemoved
    /\ id \in winLive
    /\ winLive' = winLive \ {id}
    /\ removedQueue' = removedQueue \cup {id}
    /\ removedCount' = removedCount + 1
    /\ UNCHANGED <<lastFocusedWindow, lookup, badgeRequests, focusCount,
                   lastFocusEvent, focusedIds,
                   hostVars, clickVars, menuVars, tabVars>>

\* onRemoved with its two statements swapped: refresh after the removal.
WindowRemovedBadgeLate(id) ==
    /\ id \in removedQueue
    /\ removedQueue' = removedQueue \ {id}
    /\ badgeRequests' = UpdateIconBadge(SetAt(SetDelete(lastFocusedWindow, id), 0))
    /\ lastFocusedWindow' = SetDelete(lastFocusedWindow, id)
    /\ UNCHANGED <<winLive, lookup, focusCount, lastFocusEvent, focusedIds,
                   removedCount,
                   hostVars, clickVars, menuVars, tabVars>>

\* onRemoved
WindowRemoved(id) ==
    /\ id \in removedQueue
    /\ removedQueue' = removedQueue \ {id}
    /\ badgeRequests' = UpdateIconBadge(SetAt(lastFocusedWindow, 0))
    /\ lastFocusedWindow' = SetDelete(lastFocusedWindow, id)
    /\ UNCHANGED <<winLive, lookup, focusCount, lastFocusEvent, focusedIds,
                   removedCount,
                   hostVars, clickVars, menuVars, tabVars>>

\* All orders of the elements of a set
Orders(S) ==
    {q \in [1..Cardinality(S) -> S] : \A i, j \in 1..Cardinality(S) : q[i] = q[j] => i = j}

MenuIdle ==
    /\ windowMenuIds = <<>>
    /\ lastMenuInstanceId = 0
    /\ nextMenuInstanceId = 1
    /\ session = [t \in Tokens |-> NoSession]
    /\ menuItems = {}
    /\ parentEnabled = [p \in MenuParents |-> FALSE]
    /\ menuTab = [windowId |-> 1, incognito |-> FALSE]
    /\ refreshed = {}
    /\ hiddenDuring = {}
    /\ supersededBy = [t \in Tokens |-> 0]

\* The tracker after its seeding from windows.getAll(), in any order; the
\* last window is a popup, the others are normal.
FocusInit ==
    /\ clicked = NoClick
    /\ winType = [w \in Windows |-> IF w < NumWindows THEN "normal" ELSE "popup"]
    /\ winIncognito = [w \in Windows |-> FALSE]
    /\ winLive = Windows
    /\ lastFocusedWindow \in Orders(Windows)
    /\ lookup = [n \in FocusEvents |-> [id |-> 0, st |-> "none"]]
    /\ removedQueue = {}
    /\ badgeRequests = <<>>
    /\ focusCount = 0
    /\ lastFocusEvent = WINDOW_ID_NONE
    /\ focusedIds = {}
    /\ removedCount = 0
    /\ MenuIdle
    /\ TabsIdle

FocusNext ==
    \/ \E id \in Windows \cup {WINDOW_ID_NONE} : FocusChanged(id)
    \/ \E n \in FocusEvents : HostGet(n)
    \/ \E n \in FocusEvents : FocusLookupResolved(n)
    \/ \E n \in FocusEvents : FocusLookupRejected(n)
    \/ \E id \in Windows : HostRemoveWindow(id)
    \/ \E id \in Windows : WindowRemoved(id)

SpecFocus == FocusInit /\ [][FocusNext]_vars

\* ------------------------------- browser action and move-tabs command
\* moveTabs(tab, null): null compares as 0 in targetWindowId < 1
Null == 0

\* The normal window the user is in: the one of the latest focus-changed
\* event when that is a normal window, else whichever the host has on top.
CurrentWindows ==
    IF focusCount > 0 /\ lastFocusEvent \in NormalWindows
    THEN {lastFocusEvent}
    ELSE NormalWindows

\* [...lastFocusedWindow].reverse()[1]
LastActiveWindow == SetAt(lastFocusedWindow, Len(lastFocusedWindow) - 2)

\* onClicked up to its await of windows.getAll
Clicked(w) ==
    /\ clicked.st = "none"
    /\ w \in CurrentWindows
    /\ clicked' = [via |-> "click", st |-> "waiting", windowId |-> w,
                   targetWindowId |-> 0]
    /\ badgeRequests' = <<>>
    /\ UNCHANGED <<winLive, lastFocusedWindow, lookup, removedQueue, focusCount,
                   lastFocusEvent, focusedIds, removedCount,
                   hostVars, menuVars, tabVars>>

\* onClicked after windows.getAll: with one normal window a new window is
\* asked for; else the loop skips the tab's own window (dropping it from the
\* recency set when the tab is its only one) and calls moveTabs for the
\* first other window, with the last active window as target if there is one.
ClickResume(single) ==
    /\ clicked.via = "click"
    /\ clicked.st = "waiting"
    /\ badgeRequests' = <<>>
    /\ LET own == clicked.windowId
           targetWindows == SeqOfSet(NormalWindows)
           lastActiveWindow == LastActiveWindow
       IN IF Len(targetWindows) = 0
          THEN /\ clicked' = [clicked EXCEPT !.st = "ended"]
               /\ UNCHANGED lastFocusedWindow
          ELSE IF Len(targetWindows) = 1
          THEN /\ clicked' = [clicked EXCEPT !.st = "called", !.targetWindowId = Null]
               /\ UNCHANGED lastFocusedWindow
          ELSE LET ownFirst == targetWindows[1] = own
                   targetWindow == IF ownFirst THEN targetWindows[2]
                                   ELSE targetWindows[1]
               IN /\ lastFocusedWindow' =
                        IF ownFirst /\ single THEN SetDelete(lastFocusedWindow, own)
                        ELSE lastFocusedWindow
                  /\ clicked' = [clicked EXCEPT
                        !.st = "called",
                        !.targetWindowId = IF lastActiveWindow > 0
                                           THEN lastActiveWindow ELSE targetWindow]
    /\ UNCHANGED <<winLive, lookup, removedQueue, focusCount,
                   lastFocusEvent, focusedIds, removedCount,
                   hostVars, menuVars, tabVars>>

\* The move-tabs command up to the resolution of getCurrentTab()
Command ==
    /\ clicked.st = "none"
    /\ clicked' = [via |-> "command", st |-> "waiting", windowId |-> 0,
                   targetWindowId |-> 0]
    /\ badgeRequests' = <<>>
    /\ UNCHANGED <<winLive, lastFocusedWindow, lookup, removedQueue, focusCount,
                   lastFocusEvent, focusedIds, removedCount,
                   hostVars, menuVars, tabVars>>

\* The .then callback of the command: the active tab of the current window
\* w is moved to the last active window, if there is one.
CommandResume(w) ==
    /\ clicked.via = "command"
    /\ clicked.st = "waiting"
    /\ w \in CurrentWindows
    /\ clicked' = IF LastActiveWindow > 0
                  THEN [clicked EXCEPT !.st = "called", !.windowId = w,
                                       !.targetWindowId = LastActiveWindow]
                  ELSE [clicked EXCEPT !.st = "ended", !.windowId = w]
    /\ badgeRequests' = <<>>
    /\ UNCHANGED <<winLive, lastFocusedWindow, lookup, removedQueue, focusCount,
                   lastFocusEvent, focusedIds, removedCount,
                   hostVars, menuVars, tabVars>>

ClickNext ==
    \/ \E w \in Windows : Clicked(w)
    \/ \E single \in BOOLEAN : ClickResume(single)
    \/ Command
    \/ \E w \in Windows : CommandResume(w)
    \/ \E id \in Windows \cup {WINDOW_ID_NONE} : FocusChanged(id)
    \/ \E n \in FocusEvents : HostGet(n)
    \/ \E n \in FocusEvents : FocusLookupResolved(n)
    \/ \E n \in FocusEvents : FocusLookupRejected(n)
    \/ \E id \in Windows : HostRemoveWindow(id)
    \/ \E id \in Windows : WindowRemoved(id)

SpecClick == FocusInit /\ [][ClickNext]_vars

\* C13: a call of moveTabs by the click handler or by the move-tabs command
\* with a positive target window id names a window other than the one of
\* the tab that is moved.
C13_TargetIsAnotherWindow ==
    (clicked.st = "called" /\ clicked.targetWindowId > 0)
    => clicked.targetWindowId # clicked.windowId

\* The same before any focus-changed event and any removal: the seeding
\* order alone decides.
C13_TargetIsAnotherWindowAtStartup ==
    (/\ clicked.st = "called"
     /\ clicked.targetWindowId > 0
     /\ focusCount = 0
     /\ removedCount = 0)
    => clicked.targetWindowId # clicked.windowId

\* ------------------------------------------------ recency: the claims
LookupsDone == \A n \in FocusEvents : lookup[n].st \in {"none", "done"}

Occurrences(q, x) == Cardinality({i \in 1..Len(q) : q[i] = x})

\* C2: after focus-changed events for live normal windows, once every
\* lookup has resolved, the recency set holds each of those windows exactly
\* once and ends with the window of the most recent focus-changed event.
C2_MostRecentLast ==
    (/\ focusCount > 0
     /\ LookupsDone
     /\ removedQueue = {}
     /\ focusedIds \subseteq NormalWindows)
    => /\ \A w \in focusedIds : Occurrences(lastFocusedWindow, w) = 1
       /\ lastFocusedWindow[Len(lastFocusedWindow)] = lastFocusEvent

\* The part of C2 that holds: each focused window is in the set exactly once.
C2_EachExactlyOnce ==
    (/\ focusCount > 0
     /\ LookupsDone
     /\ removedQueue = {}
     /\ focusedIds \subseteq NormalWindows)
    => \A w \in focusedIds : Occurrences(lastFocusedWindow, w) = 1

\* The windows whose removed event has been handled.
RemovedHandled == Windows \ (winLive \cup removedQueue)

\* The position of an element of the set.
IndexOf(q, x) == CHOOSE i \in 1..Len(q) : q[i] = x

\* q keeps the elements of S in the order they have in p.
SameOrder(p, q) ==
    \A i, j \in 1..Len(q) : i < j => IndexOf(p, q[i]) < IndexOf(p, q[j])

\* C12: handling the removed event of W leaves the recency set without W,
\* with every other element kept, in the same relative order, wherever W
\* was; a set that did not hold W is left as it was.
C12_RemovalKeepsOrder ==
    [][\A w \in Windows :
         (w \in removedQueue /\ w \notin removedQueue')
         => /\ w \notin Range(lastFocusedWindow')
            /\ Range(lastFocusedWindow') = Range(lastFocusedWindow) \ {w}
            /\ Len(lastFocusedWindow') = Cardinality(Range(lastFocusedWindow'))
            /\ SameOrder(lastFocusedWindow, lastFocusedWindow')
            /\ w \notin Range(lastFocusedWindow)
                 => lastFocusedWindow' = lastFocusedWindow]_vars

\* A removed event has been handled and the other windows are in the set.
C12_Witness ==
    /\ RemovedHandled # {}
    /\ Len(lastFocusedWindow) = NumWindows - 1
    /\ Range(lastFocusedWindow) = winLive

\* C14: once the removed event of W has been handled and every lookup of
\* onFocusChanged has resolved, W is not in the recency set.
C14_RemovedStaysOut ==
    LookupsDone => \A w \in RemovedHandled : w \notin Range(lastFocusedWindow)

\* The step is the .then callback of a lookup of onFocusChanged.
IsLookupResolved(n) ==
    /\ lookup[n].st \in {"normal", "popup"}
    /\ lookup'[n].st = "done"

\* C15: a callback of onFocusChanged(id) that changes the recency set
\* requests one badge refresh, keyed on the element that was last before
\* the change, which is not id, and leaves id as the last element.
C15_BadgeKeyedOnPreviousLast ==
    [][\A n \in FocusEvents :
         (IsLookupResolved(n) /\ lastFocusedWindow' # lastFocusedWindow)
         => /\ Len(lastFocusedWindow) > 0
            /\ badgeRequests' = <<lastFocusedWindow[Len(lastFocusedWindow)]>>
            /\ lastFocusedWindow[Len(lastFocusedWindow)] # lookup[n].id
            /\ lastFocusedWindow'[Len(lastFocusedWindow')] = lookup[n].id]_vars

\* A focus change has moved a window to the tail and asked for the refresh
\* of the one that was last before.
C15_Witness ==
    /\ removedCount = 0
    /\ focusCount > 0
    /\ Len(badgeRequests) = 1
    /\ badgeRequests[1] # lastFocusedWindow[Len(lastFocusedWindow)]
    /\ lastFocusedWindow[Len(lastFocusedWindow)] \in focusedIds

\* C16: onFocusChanged leaves the recency set as it is and requests no
\* badge refresh for the none sentinel (no lookup is started either), for a
\* window whose type is not normal, and for the id that is already last.
C16_NoOpCases ==
    [][/\ (focusCount' = focusCount + 1 /\ lastFocusEvent' = WINDOW_ID_NONE)
          => /\ lastFocusedWindow' = lastFocusedWindow
             /\ badgeRequests' = <<>>
             /\ lookup'[focusCount'].st = "done"
       /\ \A n \in FocusEvents :
            (/\ IsLookupResolved(n)
             /\ \/ lookup[n].st # "normal"
                \/ lookup[n].id = SetAt(lastFocusedWindow, Len(lastFocusedWindow) - 1))
            => /\ lastFocusedWindow' = lastFocusedWindow
               /\ badgeRequests' = <<>>]_vars

\* The sentinel and the popup have been handled: nothing was requested.
C16_Witness ==
    /\ focusedIds = {WINDOW_ID_NONE, NumWindows}
    /\ winType[NumWindows] = "popup"
    /\ focusCount = 2
    /\ LookupsDone
    /\ removedCount = 0
    /\ badgeRequests = <<>>

\* C20: handling the removed event of id requests the badge refresh keyed
\* on the head of the recency set as it is before the removal, and leaves
\* the set without id.
C20_BadgeOnHeadBeforeRemoval ==
    [][\A w \in Windows :
         (w \in removedQueue /\ w \notin removedQueue')
         => /\ Len(lastFocusedWindow) > 0
            /\ badgeRequests' = <<lastFocusedWindow[1]>>
            /\ lastFocusedWindow' = SelectSeq(lastFocusedWindow, LAMBDA x : x # w)]_vars

\* The removed window was the head: the refresh is keyed on it although it
\* has left the set.
C20_Witness ==
    /\ Len(badgeRequests) = 1
    /\ badgeRequests[1] \in RemovedHandled
    /\ badgeRequests[1] \notin Range(lastFocusedWindow)
    /\ focusCount = 0
\* ------------------------------------------------------ host: tabs
OpenTabs(T) == {t \in DOMAIN T : T[t].open}

TabsIn(T, w) == {t \in OpenTabs(T) : T[t].windowId = w}

\* What a query or an event hands to the extension: a copy of the tab.
Snapshot(t) ==
    [id |-> t, active |-> tabs[t].active, cookieStoreId |-> tabs[t].cookieStoreId,
     url |-> tabs[t].url]

\* browser.tabs.query({highlighted: true, windowId: w}), in tab order
QueryHighlighted(w) ==
    LET ids == SeqOfSet({t \in TabsIn(tabs, w) : tabs[t].highlighted})
    IN [i \in 1..Len(ids) |-> Snapshot(ids[i])]

\* A tab moved into another window arrives there inactive and unselected.
MoveInto(T, ids, w) ==
    [t \in DOMAIN T |->
        IF t \in ids /\ T[t].windowId # w
        THEN [T[t] EXCEPT !.windowId = w, !.active = FALSE, !.highlighted = FALSE]
        ELSE T[t]]

\* tabs.update(t, {active: true}): t becomes the active tab of its window,
\* which resets the selection of that window.
ActivateTab(T, t) ==
    [x \in DOMAIN T |->
        IF x = t THEN [T[x] EXCEPT !.active = TRUE, !.highlighted = TRUE]
        ELSE IF T[x].windowId = T[t].windowId
             THEN [T[x] EXCEPT !.active = FALSE, !.highlighted = FALSE]
             ELSE T[x]]

\* tabs.update(t, {active: false, highlighted: true}): t joins the selection
\* without being activated; active: false by itself changes nothing.
HighlightTab(T, t) == [T EXCEPT ![t].highlighted = TRUE]

\* A window whose active tab left still has tabs but no active one: the
\* host activates one of those left, whichever it picks.
Successors(T) ==
    LET orphans == {t \in OpenTabs(T) :
                        \A x \in TabsIn(T, T[t].windowId) : ~T[x].active}
    IN IF orphans = {} THEN {Undefined} ELSE orphans

WithSuccessor(T, succ) ==
    IF succ = Undefined THEN T
    ELSE [T EXCEPT ![succ].active = TRUE, ![succ].highlighted = TRUE]

\* ---------------------------------------------------------- moveTabs
\* The first-occurrence order of the keys of filteredTabs (Object.keys).
CookieIDs(sel) ==
    LET firsts == {i \in 1..Len(sel) :
                      \A j \in 1..(i - 1) : sel[j].cookieStoreId # sel[i].cookieStoreId}
        order == SeqOfSet(firsts)
    IN [k \in 1..Len(order) |-> sel[order[k]].cookieStoreId]

\* filteredTabs[cookieId]: the ids of the bucket of one container
FilteredTabs(sel, cookieId) ==
    LET q == SelectSeq(sel, LAMBDA x : x.cookieStoreId = cookieId)
    IN [i \in 1..Len(q) |-> q[i].id]

\* The processing order the specification describes: the default bucket
\* kept and moved to the end.
DefaultBucketLast(sel) ==
    LET cookieIDs == CookieIDs(sel)
    IN IF Len(cookieIDs) > 1 /\ DefaultContainer \in Range(cookieIDs)
       THEN Append(SelectSeq(cookieIDs, LAMBDA c : c # DefaultContainer),
                   DefaultContainer)
       ELSE cookieIDs

\* The keys the loop goes over: of a mixed selection the default bucket is
\* deleted and its key spliced out.
ProcessedCookieIDs(sel) ==
    LET cookieIDs == CookieIDs(sel)
    IN IF Len(cookieIDs) > 1 /\ DefaultContainer \in Range(cookieIDs)
       THEN SelectSeq(cookieIDs, LAMBDA c : c # DefaultContainer)
       ELSE cookieIDs

FindActive(sel) ==
    IF \E i \in 1..Len(sel) : sel[i].active
    THEN sel[CHOOSE i \in 1..Len(sel) :
                sel[i].active /\ \A j \in 1..(i - 1) : ~sel[j].active].id
    ELSE Undefined

Front(q) == SubSeq(q, 1, Len(q) - 1)

\* The target moveTabs passes to moveToWindow for a bucket.
BucketTarget(cookieId) ==
    IF cookieId \in settings.moveableContainers THEN 0 ELSE op.targetWindowId

\* moveToWindow up to its first await: the call it issues ...
MoveToWindowCall(k, cookieId, bucket) ==
    IF BucketTarget(cookieId) < 1
    THEN [op |-> "windows.create", tabIds |-> <<bucket[Len(bucket)]>>,
          windowId |-> 0, props |-> "none", who |-> k]
    ELSE [op |-> "tabs.move", tabIds |-> bucket,
          windowId |-> BucketTarget(cookieId), props |-> "index -1", who |-> k]

\* A moveToWindow that forgets the rest of the bucket after the pop.
MoveToWindowStateSeedOnly(cookieId, bucket) ==
    IF BucketTarget(cookieId) < 1
    THEN [cookieId |-> cookieId, tabs |-> <<>>, all |-> bucket,
          targetWindowId |-> BucketTarget(cookieId), st |-> "creating"]
    ELSE [cookieId |-> cookieId, tabs |-> bucket, all |-> bucket,
          targetWindowId |-> BucketTarget(cookieId), st |-> "moving"]

\* ... and its locals at that await (tabs.pop() took the last id).
MoveToWindowState(cookieId, bucket) ==
    IF BucketTarget(cookieId) < 1
    THEN [cookieId |-> cookieId, tabs |-> Front(bucket), all |-> bucket,
          targetWindowId |-> BucketTarget(cookieId), st |-> "creating"]
    ELSE [cookieId |-> cookieId, tabs |-> bucket, all |-> bucket,
          targetWindowId |-> BucketTarget(cookieId), st |-> "moving"]

\* switchToActiveTab || switchToTabAfterMoving && activeTab && activeTab.id
SwitchAfterMove(active) ==
    \/ op.switchToActiveTab
    \/ (settings.switchToTabAfterMoving /\ active # Undefined)

\* moveTabs / reopenTabs: the await of tabs.query for a highlighted tab
TabsQuery ==
    /\ pc = "start"
    /\ tabs[op.tab].highlighted
    /\ pc' = "query"
    /\ UNCHANGED <<tabs, settings, op, queried, selectedTabs, activeTab, moving, newTabs,
                   hostQueue, hostLog, nextWindowId, hostVars, clickVars, menuVars, focusVars>>

Selection ==
    IF pc = "query" THEN QueryHighlighted(tabs[op.tab].windowId)
    ELSE <<Snapshot(op.tab)>>

\* moveTabs from the selection to its await of tabs.update (or its end):
\* the buckets, one moveToWindow call each (not awaited), the reactivation.
MoveTabsDispatch ==
    /\ op.name = "moveTabs"
    /\ pc = "query" \/ (pc = "start" /\ ~tabs[op.tab].highlighted)
    /\ LET sel == Selection
           active == FindActive(sel)
           cookieIDs == ProcessedCookieIDs(sel)
           calls == [k \in 1..Len(cookieIDs) |->
                        MoveToWindowCall(k, cookieIDs[k], FilteredTabs(sel, cookieIDs[k]))]
       IN /\ queried' = sel
          /\ selectedTabs' = sel
          /\ activeTab' = active
          /\ moving' = [k \in 1..Len(cookieIDs) |->
                          MoveToWindowState(cookieIDs[k], FilteredTabs(sel, cookieIDs[k]))]
          /\ IF SwitchAfterMove(active)
             THEN IF active = Undefined
                  THEN \* activeTab.id of undefined: a TypeError ends moveTabs
                       /\ pc' = "threw"
                       /\ hostQueue' = hostQueue \o calls
                  ELSE /\ pc' = "reactivating"
                       /\ hostQueue' = hostQueue \o calls \o
                            <<[op |-> "tabs.update", tabIds |-> <<active>>,
                               windowId |-> 0, props |-> "activate", who |-> 0]>>
             ELSE /\ pc' = "done"
                  /\ hostQueue' = hostQueue \o calls
    /\ UNCHANGED <<tabs, settings, op, newTabs, hostLog, nextWindowId,
                   hostVars, clickVars, menuVars, focusVars>>

\* The host handles windows.create({tabId}): a new window with that tab as
\* its only, active tab; moveToWindow resumes with the window's id.
HostWindowsCreate ==
    /\ hostQueue # <<>>
    /\ Head(hostQueue).op = "windows.create"
    /\ LET c == Head(hostQueue)
           t == c.tabIds[1]
           moved == [tabs EXCEPT ![t].windowId = nextWindowId,
                                 ![t].active = TRUE, ![t].highlighted = TRUE]
       IN /\ \E succ \in Successors(moved) : tabs' = WithSuccessor(moved, succ)
          /\ moving' = [moving EXCEPT ![c.who].st = "created",
                                      ![c.who].targetWindowId = nextWindowId]
          /\ hostLog' = Append(hostLog, [c EXCEPT !.windowId = nextWindowId])
    /\ nextWindowId' = nextWindowId + 1
    /\ hostQueue' = Tail(hostQueue)
    /\ UNCHANGED <<settings, op, pc, queried, selectedTabs, activeTab, newTabs,
                   hostVars, clickVars, menuVars, focusVars>>

\* moveToWindow after windows.create: move what is left of the bucket.
MoveToWindowResume(k) ==
    /\ k \in 1..Len(moving)
    /\ moving[k].st = "created"
    /\ moving' = [moving EXCEPT ![k].st = "moving"]
    /\ hostQueue' = Append(hostQueue,
            [op |-> "tabs.move", tabIds |-> moving[k].tabs,
             windowId |-> moving[k].targetWindowId, props |-> "index -1", who |-> k])
    /\ UNCHANGED <<tabs, settings, op, pc, queried, selectedTabs, activeTab, newTabs,
                   hostLog, nextWindowId, hostVars, clickVars, menuVars, focusVars>>

\* The host handles tabs.move(ids, {windowId, index: -1}).
HostTabsMove ==
    /\ hostQueue # <<>>
    /\ Head(hostQueue).op = "tabs.move"
    /\ LET c == Head(hostQueue)
           moved == MoveInto(tabs, Range(c.tabIds), c.windowId)
       IN /\ \E succ \in Successors(moved) : tabs' = WithSuccessor(moved, succ)
          /\ moving' = [moving EXCEPT ![c.who].st = "done"]
          /\ hostLog' = Append(hostLog, c)
    /\ hostQueue' = Tail(hostQueue)
    /\ UNCHANGED <<settings, op, pc, queried, selectedTabs, activeTab, newTabs,
                   nextWindowId, hostVars, clickVars, menuVars, focusVars>>

\* The host handles tabs.update; the update moveTabs awaits resumes it.
HostTabsUpdate ==
    /\ hostQueue # <<>>
    /\ Head(hostQueue).op = "tabs.update"
    /\ LET c == Head(hostQueue)
       IN /\ tabs' = IF c.props = "activate" THEN ActivateTab(tabs, c.tabIds[1])
                     ELSE HighlightTab(tabs, c.tabIds[1])
          /\ pc' = IF pc = "reactivating" /\ c.props = "activate"
                   THEN "reactivated" ELSE pc
          /\ hostLog' = Append(hostLog, c)
    /\ hostQueue' = Tail(hostQueue)
    /\ UNCHANGED <<settings, op, queried, selectedTabs, activeTab, moving, newTabs,
                   nextWindowId, hostVars, clickVars, menuVars, focusVars>>

\* moveTabs after its await of tabs.update: highlight the other tabs.
MoveTabsHighlight ==
    /\ op.name = "moveTabs"
    /\ pc = "reactivated"
    /\ pc' = "done"
    /\ LET others == SelectSeq(selectedTabs, LAMBDA x : x.id # activeTab)
       IN hostQueue' = hostQueue \o
            [i \in 1..Len(others) |->
                [op |-> "tabs.update", tabIds |-> <<others[i].id>>,
                 windowId |-> 0, props |-> "highlight", who |-> 0]]
    /\ UNCHANGED <<tabs, settings, op, queried, selectedTabs, activeTab, moving, newTabs,
                   hostLog, nextWindowId, hostVars, clickVars, menuVars, focusVars>>

\* A window of tabs with one active tab, which is part of the selection of
\* highlighted tabs; moveTabs is called on tab 1 with a target window.
MoveInit ==
    /\ clicked = NoClick
    /\ \E cookie \in [TabIds -> Containers], a \in TabIds,
          h \in SUBSET TabIds :
          tabs = [t \in TabIds |->
                    [windowId |-> 1, active |-> (t = a),
                     highlighted |-> (t = a \/ t \in h), open |-> TRUE,
                     cookieStoreId |-> cookie[t], url |-> <<>>]]
    /\ settings \in [switchToTabAfterMoving : BOOLEAN,
                     moveableContainers : {{}, {"container-A"}}]
    /\ op \in [name : {"moveTabs"}, tab : {1}, targetWindowId : {0, 2},
               switchToActiveTab : BOOLEAN]
    /\ pc = "start"
    /\ queried = <<>>
    /\ selectedTabs = <<>>
    /\ activeTab = Undefined
    /\ moving = <<>>
    /\ newTabs = <<>>
    /\ hostQueue = <<>>
    /\ hostLog = <<>>
    /\ nextWindowId = NumWindows + 1
    /\ winType = [w \in Windows |-> "normal"]
    /\ winIncognito = [w \in Windows |-> FALSE]
    /\ FocusIdle
    /\ MenuIdle

MoveNext ==
    \/ TabsQuery
    \/ MoveTabsDispatch
    \/ HostWindowsCreate
    \/ \E k \in 1..NumTabs : MoveToWindowResume(k)
    \/ HostTabsMove
    \/ HostTabsUpdate
    \/ MoveTabsHighlight

SpecMove == MoveInit /\ [][MoveNext]_vars
\* ------------------------------------------------ moveTabs: the claims
\* moveTabs has ended and the host has handled every call it issued.
MoveFinished ==
    /\ op.name = "moveTabs"
    /\ pc \in {"done", "threw"}
    /\ hostQueue = <<>>
    /\ \A k \in 1..Len(moving) : moving[k].st = "done"

SelectedIds == {selectedTabs[i].id : i \in 1..Len(selectedTabs)}

SelectedContainers == {selectedTabs[i].cookieStoreId : i \in 1..Len(selectedTabs)}

BucketIds(cookieId) ==
    {selectedTabs[i].id :
        i \in {j \in 1..Len(selectedTabs) : selectedTabs[j].cookieStoreId = cookieId}}

\* The tabs named by the calls the host handled.
MovedIds ==
    UNION {Range(hostLog[i].tabIds) :
            i \in {j \in 1..Len(hostLog) :
                     hostLog[j].op \in {"windows.create", "tabs.move"}}}

MixedWithDefault ==
    Cardinality(SelectedContainers) > 1 /\ DefaultContainer \in SelectedContainers

\* Where the tabs of a bucket are once the moves are done: in the target
\* window, or together and alone in one new window.
BucketArrived(cookieId) ==
    IF BucketTarget(cookieId) < 1
    THEN \E w \in (NumWindows + 1)..(nextWindowId - 1) :
            TabsIn(tabs, w) = BucketIds(cookieId)
    ELSE \A t \in BucketIds(cookieId) : tabs[t].windowId = op.targetWindowId

\* C3: every bucket of the selection is moved, the default bucket too when
\* the selection is mixed: the moveable containers' tabs to a new window,
\* all the others, default included, to the target window.
C3_EveryBucketMoved ==
    MoveFinished
    => /\ \A c \in SelectedContainers : BucketArrived(c)
       /\ SelectedIds \subseteq MovedIds

\* C3 as amended: of a selection that spans several containers and includes
\* default tabs, the default tabs are part of no move and stay in their
\* window; every other bucket arrives in a new window of its own (moveable
\* container, or no target window) or in the target window.
C3_DefaultBucketDropped ==
    MoveFinished
    => /\ \A c \in SelectedContainers :
            IF MixedWithDefault /\ c = DefaultContainer
            THEN \A t \in BucketIds(c) : tabs[t].windowId = 1 /\ t \notin MovedIds
            ELSE BucketArrived(c) /\ BucketIds(c) \subseteq MovedIds
       /\ op.targetWindowId >= 1 =>
            TabsIn(tabs, op.targetWindowId) =
                UNION {BucketIds(c) : c \in {x \in SelectedContainers :
                    /\ BucketTarget(x) >= 1
                    /\ ~(MixedWithDefault /\ x = DefaultContainer)}}

C3_Witness ==
    /\ MoveFinished
    /\ SelectedContainers = Containers
    /\ settings.moveableContainers = {"container-A"}
    /\ op.targetWindowId = 2

\* C6: with switchToTabAfterMoving and an active tab in the selection, when
\* all is done the originally active tab is the one active tab of the
\* selection, in the window its bucket went to, and every other tab of the
\* selection has been moved and is inactive and highlighted.
C6_ActivePreserved ==
    (/\ MoveFinished
     /\ pc = "done"
     /\ settings.switchToTabAfterMoving
     /\ activeTab # Undefined)
    => /\ {t \in SelectedIds : tabs[t].active} = {activeTab}
       /\ tabs[activeTab].windowId # 1
       /\ \A t \in SelectedIds \ {activeTab} :
            /\ tabs[t].windowId # 1
            /\ ~tabs[t].active
            /\ tabs[t].highlighted

\* C6 for a selection of one container only, all of it moved to one window.
C6_ActivePreservedOneBucket ==
    (/\ MoveFinished
     /\ pc = "done"
     /\ settings.switchToTabAfterMoving
     /\ activeTab # Undefined
     /\ Cardinality(SelectedContainers) = 1)
    => /\ {t \in SelectedIds : tabs[t].active} = {activeTab}
       /\ tabs[activeTab].windowId # 1
       /\ \A t \in SelectedIds \ {activeTab} :
            /\ tabs[t].windowId # 1
            /\ ~tabs[t].active
            /\ tabs[t].highlighted

\* C6 holds when the one bucket goes to an existing window: there the move
\* is issued before the reactivation.
C6_ActivePreservedExistingTarget ==
    (/\ MoveFinished
     /\ pc = "done"
     /\ settings.switchToTabAfterMoving
     /\ activeTab # Undefined
     /\ Cardinality(SelectedContainers) = 1
     /\ \A c \in SelectedContainers : BucketTarget(c) >= 1)
    => /\ {t \in SelectedIds : tabs[t].active} = {activeTab}
       /\ tabs[activeTab].windowId = op.targetWindowId
       /\ \A t \in SelectedIds \ {activeTab} :
            /\ tabs[t].windowId = op.targetWindowId
            /\ ~tabs[t].active
            /\ tabs[t].highlighted

\* The calls of one kind the host handled for the k-th moveToWindow.
CallsOf(k, name) ==
    {i \in 1..Len(hostLog) : hostLog[i].op = name /\ hostLog[i].who = k}

\* C18: a moveToWindow called with a target below 1 creates one new window
\* from one tab of its bucket and then moves the rest of the bucket, and
\* nothing else, into that window: when all is done the new window holds
\* exactly the tabs of the bucket, a bucket of one tab included.
C18_NewWindowHoldsBucket ==
    MoveFinished
    => \A k \in 1..Len(moving) :
         BucketTarget(moving[k].cookieId) < 1
         => /\ Cardinality(CallsOf(k, "windows.create")) = 1
            /\ Cardinality(CallsOf(k, "tabs.move")) = 1
            /\ \A c \in CallsOf(k, "windows.create"), m \in CallsOf(k, "tabs.move") :
                 /\ c < m
                 /\ Len(hostLog[c].tabIds) = 1
                 /\ hostLog[c].tabIds[1] \in Range(moving[k].all)
                 /\ hostLog[c].windowId > NumWindows
                 /\ Range(hostLog[m].tabIds) =
                        Range(moving[k].all) \ {hostLog[c].tabIds[1]}
                 /\ hostLog[m].windowId = hostLog[c].windowId
                 /\ hostLog[m].props = "index -1"
                 /\ TabsIn(tabs, hostLog[c].windowId) = Range(moving[k].all)
                 /\ \A j \in 1..Len(moving) :
                      j # k => ~(\E x \in CallsOf(j, "windows.create") :
                                   hostLog[x].windowId = hostLog[c].windowId)

\* Two buckets, of two tabs and of one tab, each went to a window of its own.
C18_Witness ==
    /\ MoveFinished
    /\ op.targetWindowId = 0
    /\ Len(moving) = 2
    /\ Len(moving[1].all) = 2
    /\ Len(moving[2].all) = 1
    /\ nextWindowId = NumWindows + 3
\* -------------------------------------------------------- reopenTabs
\* The URLs of the tabs, as their characters.
HttpUrl == <<"h", "t", "t", "p", ":", "/", "/", "a">>
HttpsUrl == <<"h", "t", "t", "p", "s", ":", "/", "/", "b">>
FtpUrl == <<"f", "t", "p", ":", "/", "/", "c">>
AboutUrl == <<"a", "b", "o", "u", "t", ":", "c", "o", "n", "f", "i", "g">>
Urls == {HttpUrl, HttpsUrl, FtpUrl, AboutUrl}

ALLOWED_PROTOCOLS ==
    {<<"h", "t", "t", "p", ":">>, <<"h", "t", "t", "p", "s", ":">>,
     <<"f", "t", "p", ":">>}

\* new URL(url).protocol: the scheme, up to and including the first colon
Protocol(url) ==
    LET colon == CHOOSE i \in 1..Len(url) :
                    url[i] = ":" /\ \A j \in 1..(i - 1) : url[j] # ":"
    IN SubSeq(url, 1, colon)

\* No filter at all: every selected tab is taken.
Unfiltered(sel) == sel

\* A filter that forgets a protocol of the allowed set.
ReopenableWithoutFtp(sel) ==
    SelectSeq(sel, LAMBDA x : Protocol(x.url) \in ALLOWED_PROTOCOLS \ {<<"f", "t", "p", ":">>})

\* selectedTabs.filter(... ALLOWED_PROTOCOLS.has(new URL(url).protocol))
Reopenable(sel) ==
    SelectSeq(sel, LAMBDA x : Protocol(x.url) \in ALLOWED_PROTOCOLS)

\* A selection left as filtered: no fallback when the active tab is gone.
WithoutFallback(sel) == sel

\* The active tab of the filtered selection; without one the first tab is
\* taken and its copy marked active.
WithActive(sel) ==
    IF FindActive(sel) # Undefined THEN sel
    ELSE [sel EXCEPT ![1].active = TRUE]

\* reopenTabs from the selection to its await of Promise.all: filter, pick
\* the active tab, issue one tabs.create per selected tab.
ReopenDispatch ==
    /\ op.name = "reopenTabs"
    /\ pc = "query" \/ (pc = "start" /\ ~tabs[op.tab].highlighted)
    /\ queried' = Selection
    /\ LET filtered == Reopenable(Selection)
       IN IF Len(filtered) = 0
          THEN /\ pc' = "done"
               /\ selectedTabs' = filtered
               /\ UNCHANGED <<activeTab, newTabs, hostQueue>>
          ELSE LET sel == WithActive(filtered)
               IN /\ pc' = "creating"
                  /\ selectedTabs' = sel
                  /\ activeTab' = FindActive(sel)
                  /\ newTabs' = [i \in 1..Len(sel) |->
                                    [st |-> "pending", id |-> 0, active |-> FALSE]]
                  /\ hostQueue' = hostQueue \o
                        [i \in 1..Len(sel) |->
                            [op |-> "tabs.create", tabIds |-> <<>>,
                             windowId |-> op.targetWindowId,
                             props |-> [url |-> sel[i].url, active |-> sel[i].active],
                             who |-> i]]
    /\ UNCHANGED <<tabs, settings, op, moving, hostLog, nextWindowId,
                   hostVars, clickVars, menuVars, focusVars>>

NextTabId(T) == Cardinality(DOMAIN T) + 1

\* The host handles tabs.create: a new tab in the target window, or an
\* error that rejects the call.
HostTabsCreate(ok) ==
    /\ hostQueue # <<>>
    /\ Head(hostQueue).op = "tabs.create"
    /\ LET c == Head(hostQueue)
           id == NextTabId(tabs)
           made == [t \in DOMAIN tabs \cup {id} |->
                      IF t = id
                      THEN [windowId |-> c.windowId, active |-> FALSE,
                            highlighted |-> FALSE, open |-> TRUE,
                            cookieStoreId |-> DefaultContainer, url |-> c.props.url]
                      ELSE tabs[t]]
       IN IF ok
          THEN /\ tabs' = IF c.props.active THEN ActivateTab(made, id) ELSE made
               /\ newTabs' = [newTabs EXCEPT ![c.who] =
                                [st |-> "ok", id |-> id, active |-> c.props.active]]
               /\ hostLog' = Append(hostLog, [c EXCEPT !.tabIds = <<id>>])
          ELSE /\ newTabs' = [newTabs EXCEPT ![c.who].st = "fail"]
               /\ UNCHANGED <<tabs, hostLog>>
    /\ hostQueue' = Tail(hostQueue)
    /\ UNCHANGED <<settings, op, pc, queried, selectedTabs, activeTab, moving,
                   nextWindowId, hostVars, clickVars, menuVars, focusVars>>

\* Promise.allSettled instead of Promise.all: settled, whatever the outcome.
CreationsAllSettled == \A i \in 1..Len(newTabs) : newTabs[i].st # "pending"

\* await Promise.all(...) fulfils: every creation has succeeded
CreationsAllFulfilled == \A i \in 1..Len(newTabs) : newTabs[i].st = "ok"

\* reopenTabs after Promise.all: highlight the inactive new tabs, then remove
\* the selected tabs in one call.
ReopenSettle ==
    /\ op.name = "reopenTabs"
    /\ pc = "creating"
    /\ CreationsAllFulfilled
    /\ pc' = "done"
    /\ LET inactive == SelectSeq(newTabs, LAMBDA x : x.st = "ok" /\ ~x.active)
       IN hostQueue' = hostQueue \o
            [i \in 1..Len(inactive) |->
                [op |-> "tabs.update", tabIds |-> <<inactive[i].id>>,
                 windowId |-> 0, props |-> "highlight", who |-> 0]] \o
            <<[op |-> "tabs.remove",
               tabIds |-> [i \in 1..Len(selectedTabs) |-> selectedTabs[i].id],
               windowId |-> 0, props |-> "none", who |-> 0]>>
    /\ UNCHANGED <<tabs, settings, op, queried, selectedTabs, activeTab, moving,
                   newTabs, hostLog, nextWindowId, hostVars, clickVars, menuVars, focusVars>>

\* reopenTabs when Promise.all rejects: the await throws, reopenTabs ends.
ReopenReject ==
    /\ op.name = "reopenTabs"
    /\ pc = "creating"
    /\ \E i \in 1..Len(newTabs) : newTabs[i].st = "fail"
    /\ pc' = "threw"
    /\ UNCHANGED <<tabs, settings, op, queried, selectedTabs, activeTab, moving,
                   newTabs, hostQueue, hostLog, nextWindowId, hostVars, clickVars, menuVars,
                   focusVars>>

\* The host handles tabs.remove(ids): the tabs are closed.
HostTabsRemove ==
    /\ hostQueue # <<>>
    /\ Head(hostQueue).op = "tabs.remove"
    /\ LET c == Head(hostQueue)
           closed == [t \in DOMAIN tabs |->
                        IF t \in Range(c.tabIds)
                        THEN [tabs[t] EXCEPT !.open = FALSE, !.active = FALSE,
                                             !.highlighted = FALSE]
                        ELSE tabs[t]]
       IN /\ \E succ \in Successors(closed) : tabs' = WithSuccessor(closed, succ)
          /\ hostLog' = Append(hostLog, c)
    /\ hostQueue' = Tail(hostQueue)
    /\ UNCHANGED <<settings, op, pc, queried, selectedTabs, activeTab, moving,
                   newTabs, nextWindowId, hostVars, clickVars, menuVars, focusVars>>

\* A window of tabs with any of the URLs; reopenTabs is called on tab 1 with
\* a (private) target window.
ReopenInit ==
    /\ clicked = NoClick
    /\ \E url \in [TabIds -> Urls], a \in TabIds, h \in SUBSET TabIds :
          tabs = [t \in TabIds |->
                    [windowId |-> 1, active |-> (t = a),
                     highlighted |-> (t = a \/ t \in h), open |-> TRUE,
                     cookieStoreId |-> DefaultContainer, url |-> url[t]]]
    /\ settings = [switchToTabAfterMoving |-> FALSE, moveableContainers |-> {}]
    /\ op = [name |-> "reopenTabs", tab |-> 1, targetWindowId |-> 2,
             switchToActiveTab |-> FALSE]
    /\ pc = "start"
    /\ queried = <<>>
    /\ selectedTabs = <<>>
    /\ activeTab = Undefined
    /\ moving = <<>>
    /\ newTabs = <<>>
    /\ hostQueue = <<>>
    /\ hostLog = <<>>
    /\ nextWindowId = NumWindows + 1
    /\ winType = [w \in Windows |-> "normal"]
    /\ winIncognito = [w \in Windows |-> (w = 2)]
    /\ FocusIdle
    /\ MenuIdle

ReopenNext ==
    \/ TabsQuery
    \/ ReopenDispatch
    \/ \E ok \in BOOLEAN : HostTabsCreate(ok)
    \/ ReopenSettle
    \/ ReopenReject
    \/ HostTabsUpdate
    \/ HostTabsRemove

SpecReopen == ReopenInit /\ [][ReopenNext]_vars

\* ---------------------------------------------- reopenTabs: the claims
ReopenFinished ==
    /\ op.name = "reopenTabs"
    /\ pc \in {"done", "threw"}
    /\ hostQueue = <<>>

RemovalIssued ==
    \/ \E i \in 1..Len(hostQueue) : hostQueue[i].op = "tabs.remove"
    \/ \E i \in 1..Len(hostLog) : hostLog[i].op = "tabs.remove"

QueriedIds == {queried[i].id : i \in 1..Len(queried)}

AllowedIds ==
    {queried[i].id :
        i \in {j \in 1..Len(queried) : Protocol(queried[j].url) \in ALLOWED_PROTOCOLS}}

\* The tabs that did not exist when reopenTabs was called.
CreatedTabs == OpenTabs(tabs) \ TabIds

\* C4: the removal of the original tabs is issued only when every creation
\* has succeeded; when a creation has failed, every original tab is open.
C4_RemovalOnlyAfterAllCreated ==
    /\ RemovalIssued => \A i \in 1..Len(newTabs) : newTabs[i].st = "ok"
    /\ (\E i \in 1..Len(newTabs) : newTabs[i].st = "fail")
        => (~RemovalIssued /\ \A t \in TabIds : tabs[t].open)

C4_Witness ==
    /\ \E i \in 1..Len(hostLog) : hostLog[i].op = "tabs.remove"
    /\ Len(newTabs) >= 2

\* C5: reopenTabs, completed without a creation failure, has made one new
\* tab in the target window per selected tab with an allowed protocol, and
\* no tab of the original selection is open any more.
C5_NoOriginalLeft ==
    (ReopenFinished /\ pc = "done")
    => /\ Cardinality(CreatedTabs) = Cardinality(AllowedIds)
       /\ \A t \in CreatedTabs : tabs[t].windowId = op.targetWindowId
       /\ \A t \in QueriedIds : ~tabs[t].open

\* C5 as amended: one new tab in the target window per selected tab with an
\* allowed protocol, with its URL; the removal names exactly those selected
\* tabs, so they are closed and every filtered-out tab stays open.
C5_AllowedReopenedOthersKept ==
    (ReopenFinished /\ pc = "done")
    => /\ Cardinality(CreatedTabs) = Cardinality(AllowedIds)
       /\ Len(newTabs) = Cardinality(AllowedIds)
       /\ \A i \in 1..Len(newTabs) :
            /\ newTabs[i].id \in CreatedTabs
            /\ tabs[newTabs[i].id].windowId = op.targetWindowId
            /\ tabs[newTabs[i].id].url = selectedTabs[i].url
            /\ selectedTabs[i].id \in AllowedIds
            /\ \A j \in 1..Len(newTabs) : newTabs[i].id = newTabs[j].id => i = j
       /\ \A t \in QueriedIds : tabs[t].open <=> t \notin AllowedIds
       /\ \A i \in 1..Len(hostLog) :
            hostLog[i].op = "tabs.remove" => Range(hostLog[i].tabIds) = AllowedIds

C5_Witness ==
    /\ ReopenFinished
    /\ pc = "done"
    /\ Len(queried) = 3
    /\ Cardinality(AllowedIds) = 2
    /\ Cardinality(CreatedTabs) = 2

\* The originally active tab of the selection, as the query reported it.
OriginalActive == FindActive(queried)

\* The selected tab whose copy is to be created active.
ExpectedActive ==
    IF OriginalActive \in AllowedIds THEN OriginalActive ELSE selectedTabs[1].id

\* The tabs.create calls reopenTabs has issued: pending or handled.
CreateCalls ==
    {hostQueue[i] : i \in {j \in 1..Len(hostQueue) : hostQueue[j].op = "tabs.create"}}
    \cup {hostLog[i] : i \in {j \in 1..Len(hostLog) : hostLog[j].op = "tabs.create"}}

HighlightedByUpdate ==
    {hostLog[i].tabIds[1] :
        i \in {j \in 1..Len(hostLog) :
                 hostLog[j].op = "tabs.update" /\ hostLog[j].props = "highlight"}}

\* C11: of the creations reopenTabs issues exactly one asks for an active
\* tab: the copy of the originally active tab if it passed the filter, else
\* the copy of the first tab that did; when reopenTabs has completed, that
\* copy is the one active created tab and every other created tab has been
\* updated to be highlighted and is inactive.
C11_OneActiveCreation ==
    /\ (pc \in {"creating", "done", "threw"} /\ Len(selectedTabs) > 0)
        => /\ Cardinality({i \in 1..Len(selectedTabs) : selectedTabs[i].active}) = 1
           /\ \A c \in CreateCalls :
                /\ c.props.active = (selectedTabs[c.who].id = ExpectedActive)
                /\ c.props.url = selectedTabs[c.who].url
                /\ c.windowId = op.targetWindowId
    /\ (ReopenFinished /\ pc = "done" /\ Len(selectedTabs) > 0)
        => \A i \in 1..Len(newTabs) :
             IF selectedTabs[i].id = ExpectedActive
             THEN /\ tabs[newTabs[i].id].active
                  /\ newTabs[i].id \notin HighlightedByUpdate
             ELSE /\ ~tabs[newTabs[i].id].active
                  /\ tabs[newTabs[i].id].highlighted
                  /\ newTabs[i].id \in HighlightedByUpdate

\* The active tab was filtered out, the first surviving tab took its place.
C11_Witness ==
    /\ ReopenFinished
    /\ pc = "done"
    /\ Len(newTabs) = 2
    /\ OriginalActive # Undefined
    /\ OriginalActive \notin AllowedIds
    /\ tabs[newTabs[1].id].active
    /\ tabs[newTabs[2].id].highlighted

\* C19: when no selected tab has an allowed protocol, reopenTabs returns
\* without an error and without a call to the host: no tab is created,
\* updated or removed, and the tabs are as they were.
C19_EmptySelectionNoEffect ==
    (op.name = "reopenTabs" /\ pc \notin {"start", "query"} /\ AllowedIds = {})
    => /\ pc = "done"
       /\ hostQueue = <<>>
       /\ hostLog = <<>>
       /\ newTabs = <<>>
       /\ DOMAIN tabs = TabIds
       /\ \A t \in TabIds : tabs[t].open /\ tabs[t].windowId = 1
       /\ \A i \in 1..Len(queried) :
            tabs[queried[i].id].active = queried[i].active

\* A selection of several tabs, none of them with an allowed protocol.
C19_Witness ==
    /\ op.name = "reopenTabs"
    /\ pc = "done"
    /\ Len(queried) >= 2
    /\ AllowedIds = {}
====
